---- MODULE Spec2Model ----
(* A model of the maze generator of src/main.go (lines 1-423): the click     *)
(* handler generateCallback and the maze operations it runs, newMaze,        *)
(* generate, draw, solve, drawPath and export.  The handler is single        *)
(* threaded and runs to completion; pc is its position.                      *)
EXTENDS Integers, Sequences, FiniteSets, TLC

\* ---------------------------------------------------------------- bounds
\* Largest valid height and width a request of the model asks for.
MaxHeight == 2
MaxWidth == 3

\* ------------------------------------------------------ program constants
maxDimension == 200
border == 40
cellWidth == 12
halfCellWidth == cellWidth \div 2
minImageWidth == cellWidth * 4 + border * 2

north == 0
south == 1
east == 2
west == 3
Directions == {north, south, east, west}

\* the nil frame buffer of line 28: no address, no pixels
nilPtr == 0
nilBuffer == [ptr |-> nilPtr, bounds |-> <<0, 0>>, base |-> "none", over |-> <<>>]

VARIABLES
  pc,           \* position of generateCallback
  args,         \* what getArguments returned to the running (or last) request
  m,            \* the maze of the request: start, finish, height, width, cells
  stack,        \* the stack local to generate / solve
  visited,      \* the visitedMap local to generate / solve
  path,         \* the slice solve returned
  seed,         \* the local seed of generateCallback, as it is after line 374
  document,     \* the form of the page: its three text fields and three check boxes
  frameBuffer,  \* the global frame buffer: nil, or its pointer, bounds and pixels
  nextPtr,      \* the allocations of frame buffers made so far
  canvas,       \* what putMaze was last invoked with
  outcome       \* what the last finished request did

vars == <<pc, args, m, stack, visited, path, seed, document, frameBuffer, nextPtr, canvas,
          outcome>>

\* ------------------------------------------------------------- positions
position(x, y) == [x |-> x, y |-> y]

\* m.at(p): the place of p's cell in m.cells (a sequence, counted from 1)
at(p, mz) == p.y * mz.width + p.x + 1

\* a translate that returns p at an edge without the error
translateNoError(d, p, mz) ==
  CASE d = north /\ p.y > 0 -> [pos |-> position(p.x, p.y - 1), err |-> FALSE]
    [] d = south /\ p.y < mz.height - 1 -> [pos |-> position(p.x, p.y + 1), err |-> FALSE]
    [] d = west /\ p.x > 0 -> [pos |-> position(p.x - 1, p.y), err |-> FALSE]
    [] d = east /\ p.x < mz.width - 1 -> [pos |-> position(p.x + 1, p.y), err |-> FALSE]
    [] OTHER -> [pos |-> p, err |-> FALSE]

\* direction.translate: the neighbour, and whether the move stays inside
translate(d, p, mz) ==
  CASE d = north /\ p.y > 0 -> [pos |-> position(p.x, p.y - 1), err |-> FALSE]
    [] d = south /\ p.y < mz.height - 1 -> [pos |-> position(p.x, p.y + 1), err |-> FALSE]
    [] d = west /\ p.x > 0 -> [pos |-> position(p.x - 1, p.y), err |-> FALSE]
    [] d = east /\ p.x < mz.width - 1 -> [pos |-> position(p.x + 1, p.y), err |-> FALSE]
    [] OTHER -> [pos |-> p, err |-> TRUE]

opposite(d) ==
  CASE d = north -> south
    [] d = south -> north
    [] d = east -> west
    [] d = west -> east

\* a zeroed cell: every wall closed
closedCell == [d \in Directions |-> FALSE]

permutations == <<
  <<north, south, east, west>>, <<north, south, west, east>>,
  <<north, east, south, west>>, <<north, east, west, south>>,
  <<north, west, south, east>>, <<north, west, east, south>>,
  <<south, north, east, west>>, <<south, north, west, east>>,
  <<south, east, north, west>>, <<south, east, west, north>>,
  <<south, west, north, east>>, <<south, west, east, north>>,
  <<east, north, south, west>>, <<east, north, west, south>>,
  <<east, south, north, west>>, <<east, south, west, north>>,
  <<east, west, north, south>>, <<east, west, south, north>>,
  <<west, north, south, east>>, <<west, north, east, south>>,
  <<west, south, north, east>>, <<west, south, east, north>>,
  <<west, east, north, south>>, <<west, east, south, north>>
>>

\* ------------------------------------------------------------------ stack
push(s, p) == Append(s, p)
peek(s) == s[Len(s)]
pop(s) == SubSeq(s, 1, Len(s) - 1)
empty(s) == Len(s) = 0

\* the handler after the panic of line 141
stackUnderflow == "panic: stack underflow"

\* the test of line 140, which peek makes and pop makes through peek
underflows(s) == Len(s) = 0

\* a loop that never looks at its stack before it runs its body
loopsRegardless(s) == TRUE

\* the condition of the loops of generate (line 209) and solve (line 241)
loops(s) == ~empty(s)

\* ---------------------------------------------------------------- newMaze
\* the handler after the panic of line 103
invalidCall == "panic: invalid call to newMaze"

\* the test of line 102 without its comparison of height and 2
invalidNewMazeWidthOnly(height, width) == width < 2

\* the test of line 102 (the rng generateCallback passes is never nil)
invalidNewMaze(height, width) == width < 2 \/ height < 2

\* newMaze with the exit's coordinates the wrong way round in corner mode
newMazeTransposedExit(height, width, sx, fx, oppositeStart) ==
  [start  |-> IF oppositeStart THEN position(0, 0) ELSE position(sx, 0),
   finish |-> IF oppositeStart THEN position(height - 1, width - 1)
                               ELSE position(fx, height - 1),
   height |-> height,
   width  |-> width,
   cells  |-> [i \in 1 .. height * width |-> closedCell]]

\* The maze newMaze returns when the two draws of rng.Intn(width) are sx, fx.
newMaze(height, width, sx, fx, oppositeStart) ==
  [start  |-> IF oppositeStart THEN position(0, 0) ELSE position(sx, 0),
   finish |-> IF oppositeStart THEN position(width - 1, height - 1)
                               ELSE position(fx, height - 1),
   height |-> height,
   width  |-> width,
   cells  |-> [i \in 1 .. height * width |-> closedCell]]

\* --------------------------------------------------------------- generate
\* carve that opens only the neighbour's wall, not p's own
carveNeighbourOnly(cells, p, d, mz) ==
  LET t == translate(d, p, mz)
  IN IF ~t.err THEN [cells EXCEPT ![at(t.pos, mz)][opposite(d)] = TRUE] ELSE cells

\* maze.carve: open p's wall d and, when the neighbour is inside, its wall back
carve(cells, p, d, mz) ==
  LET t == translate(d, p, mz)
      c1 == [cells EXCEPT ![at(p, mz)][d] = TRUE]
  IN IF ~t.err THEN [c1 EXCEPT ![at(t.pos, mz)][opposite(d)] = TRUE] ELSE c1

\* the directions of dirs, in order, that lead to an in-bounds unvisited cell
eligible(dirs, p, mz, vis) ==
  SelectSeq(dirs, LAMBDA d : LET t == translate(d, p, mz)
                             IN ~t.err /\ t.pos \notin vis)

\* the loop body without the pop of a dead end
generateIterationNoPop(dirs, stk, vis, mz) ==
  LET p == peek(stk)
      found == eligible(dirs, p, mz, vis)
  IN IF found # <<>>
     THEN LET dir == Head(found)
              np == translate(dir, p, mz).pos
          IN [stack |-> push(stk, np),
              visited |-> vis \cup {np},
              cells |-> carve(mz.cells, p, dir, mz)]
     ELSE [stack |-> stk, visited |-> vis, cells |-> mz.cells]

\* the loop body without the mark of line 217
generateIterationUnmarked(dirs, stk, vis, mz) ==
  LET p == peek(stk)
      found == eligible(dirs, p, mz, vis)
  IN IF found # <<>>
     THEN LET dir == Head(found)
              np == translate(dir, p, mz).pos
          IN [stack |-> push(stk, np),
              visited |-> vis,
              cells |-> carve(mz.cells, p, dir, mz)]
     ELSE [stack |-> pop(stk), visited |-> vis, cells |-> mz.cells]

\* the loop body taking the last direction of dirs that leads to an in-bounds
\* unvisited cell instead of the first
generateIterationLastFound(dirs, stk, vis, mz) ==
  LET p == peek(stk)
      found == eligible(dirs, p, mz, vis)
  IN IF found # <<>>
     THEN LET dir == found[Len(found)]
              np == translate(dir, p, mz).pos
          IN [stack |-> push(stk, np),
              visited |-> vis \cup {np},
              cells |-> carve(mz.cells, p, dir, mz)]
     ELSE [stack |-> pop(stk), visited |-> vis, cells |-> mz.cells]

\* the loop body of generate (lines 210-226) on the drawn permutation dirs:
\* the stack, the visited map and the cells after one iteration
generateIteration(dirs, stk, vis, mz) ==
  LET p == peek(stk)
      found == eligible(dirs, p, mz, vis)
  IN IF found # <<>>
     THEN LET dir == Head(found)
              np == translate(dir, p, mz).pos
          IN [stack |-> push(stk, np),
              visited |-> vis \cup {np},
              cells |-> carve(mz.cells, p, dir, mz)]
     ELSE [stack |-> pop(stk), visited |-> vis, cells |-> mz.cells]

\* the locals of generate before its loop (lines 207-208)
generateInit(mz) == [stack |-> <<mz.start>>, visited |-> {}]

\* the two statements after the loop with their directions exchanged
openEndsSwapped(mz) ==
  [[mz.cells EXCEPT ![at(mz.start, mz)][south] = TRUE]
            EXCEPT ![at(mz.finish, mz)][north] = TRUE]

\* the two statements after the loop (lines 229-230)
openEnds(mz) ==
  [[mz.cells EXCEPT ![at(mz.start, mz)][north] = TRUE]
            EXCEPT ![at(mz.finish, mz)][south] = TRUE]

\* ------------------------------------------------------------------ solve
\* the handler after the panic of line 257
noSolution == "panic: maze has no solution"

\* solve's locals with the entrance left unmarked
solveInitStartUnvisited(mz) == [stack |-> <<mz.start>>, visited |-> {}]

\* the locals of solve before its loop (lines 236-238)
solveInit(mz) == [stack |-> <<mz.start>>, visited |-> {mz.start}]

solveOrder == <<north, south, east, west>>

\* the test of line 248 reading the wall behind instead of the wall ahead
passableBackWall(pos, mz, vis) ==
  SelectSeq(solveOrder, LAMBDA d : LET t == translate(d, pos, mz)
                                   IN ~t.err /\ t.pos \notin vis
                                      /\ mz.cells[at(pos, mz)][opposite(d)])

\* the directions of solveOrder that solve may step in from pos (line 248)
passable(pos, mz, vis) ==
  SelectSeq(solveOrder, LAMBDA d : LET t == translate(d, pos, mz)
                                   IN ~t.err /\ t.pos \notin vis
                                      /\ mz.cells[at(pos, mz)][d])

\* ------------------------------------------------------------- rasterizer
\* image.Rect: the pixels of the rectangle, its corners put in order
Rect(x0, y0, x1, y1) ==
  LET xa == IF x0 <= x1 THEN x0 ELSE x1
      xb == IF x0 <= x1 THEN x1 ELSE x0
      ya == IF y0 <= y1 THEN y0 ELSE y1
      yb == IF y0 <= y1 THEN y1 ELSE y0
  IN (xa .. xb - 1) \X (ya .. yb - 1)

\* the bounds of lines 263-268 without the floor of lines 264-266
imageBoundsNoFloor(mz) ==
  <<mz.width * cellWidth + border * 2, mz.height * cellWidth + border * 2>>

\* the bounds draw asks for (lines 263-268): <<width, height>> in pixels
imageBounds(mz) ==
  LET width == mz.width * cellWidth + border * 2
  IN <<IF width < minImageWidth THEN minImageWidth ELSE width,
       mz.height * cellWidth + border * 2>>

InBounds(px, bounds) ==
  px[1] >= 0 /\ px[1] < bounds[1] /\ px[2] >= 0 /\ px[2] < bounds[2]

\* draw.Draw of an opaque uniform colour over a rectangle, clipped to the image
drawRect(img, r, col) ==
  LET clipped == {px \in r : InBounds(px, img.bounds)}
  IN [img EXCEPT !.over = [px \in DOMAIN img.over \cup clipped |->
                             IF px \in clipped THEN col ELSE img.over[px]]]

hLine(img, x1, y, x2, col) == drawRect(img, Rect(x1, y, x2 + 1, y + 1), col)
vLine(img, x, y1, y2, col) == drawRect(img, Rect(x, y1, x + 1, y2 + 1), col)

\* fill that colours only the pixels nothing has been drawn on
fillUndrawn(img, col) == [img EXCEPT !.base = col]

\* fill: every pixel of the image becomes col
fill(img, col) == [img EXCEPT !.base = col, !.over = <<>>]

\* image.NewRGBA: a zeroed (transparent) image at a new address
NewRGBA(ptr, bounds) ==
  [ptr |-> ptr, bounds |-> bounds, base |-> "transparent", over |-> <<>>]

drawCell(img, x, y, c) ==
  LET x0 == x * cellWidth + border
      y0 == y * cellWidth + border
      i1 == IF ~c[north] THEN hLine(img, x0, y0, x0 + cellWidth, "black") ELSE img
      i2 == IF ~c[south] THEN hLine(i1, x0, y0 + cellWidth, x0 + cellWidth, "black") ELSE i1
      i3 == IF ~c[west] THEN vLine(i2, x0, y0, y0 + cellWidth, "black") ELSE i2
  IN IF ~c[east] THEN vLine(i3, x0 + cellWidth, y0, y0 + cellWidth, "black") ELSE i3

\* the two loops of draw (lines 274-278), cell k onwards in row-major order
RECURSIVE drawCells(_, _, _)
drawCells(img, mz, k) ==
  IF k >= mz.height * mz.width THEN img
  ELSE LET x == k % mz.width
           y == k \div mz.width
       IN drawCells(drawCell(img, x, y, mz.cells[at(position(x, y), mz)]), mz, k + 1)

\* draw with the test of line 269 comparing the widths only
drawWidthOnly(fb, ptr, mz) ==
  LET bounds == imageBounds(mz)
      buf == IF fb.ptr = nilPtr \/ fb.bounds[1] # bounds[1] THEN NewRGBA(ptr, bounds) ELSE fb
  IN drawCells(fill(buf, "white"), mz, 0)

\* maze.draw: the frame buffer after the call
draw(fb, ptr, mz) ==
  LET bounds == imageBounds(mz)
      buf == IF fb.ptr = nilPtr \/ fb.bounds # bounds THEN NewRGBA(ptr, bounds) ELSE fb
  IN drawCells(fill(buf, "white"), mz, 0)

\* one step of drawPath's loop without the exchanges of lines 293-295 and 300-302
drawSegmentAsGiven(img, prev, pos) ==
  LET centre(v) == v * cellWidth + border + halfCellWidth
      i1 == IF pos.x = prev.x
            THEN vLine(img, centre(prev.x), centre(prev.y), centre(pos.y), "red")
            ELSE img
  IN IF pos.y = prev.y
     THEN hLine(i1, centre(prev.x), centre(prev.y), centre(pos.x), "red")
     ELSE i1

\* one step of drawPath's loop (lines 290-304)
drawSegment(img, prev, pos) ==
  LET centre(v) == v * cellWidth + border + halfCellWidth
      i1 == IF pos.x = prev.x
            THEN LET first == IF prev.y > pos.y THEN pos ELSE prev
                     last == IF prev.y > pos.y THEN prev ELSE pos
                 IN vLine(img, centre(first.x), centre(first.y), centre(last.y), "red")
            ELSE img
  IN IF pos.y = prev.y
     THEN LET first == IF prev.x > pos.x THEN pos ELSE prev
              last == IF prev.x > pos.x THEN prev ELSE pos
          IN hLine(i1, centre(first.x), centre(first.y), centre(last.x), "red")
     ELSE i1

RECURSIVE drawPathFrom(_, _, _)
drawPathFrom(img, pth, k) ==
  IF k > Len(pth) THEN img
  ELSE drawPathFrom(drawSegment(img, pth[k - 1], pth[k]), pth, k + 1)

\* maze.drawPath
drawPath(img, pth) == drawPathFrom(img, pth, 2)

\* -------------------------------------------------------- generateCallback
\* What getArguments returns for height, width and err in the requests of the
\* model: every valid size up to MaxHeight x MaxWidth, and requests with a
\* field below 2, above maxDimension, or that did not parse.
Sizes(maxH, maxW) == (2 .. maxH) \X (2 .. maxW) \X {FALSE}
BadRequests ==
  {<<1, 5, FALSE>>, <<5, maxDimension + 1, FALSE>>, <<maxDimension + 1, 2, FALSE>>,
   <<2, 1, FALSE>>, <<-1, 3, FALSE>>, <<0, maxDimension + 1, FALSE>>,
   <<2, 2, TRUE>>}
Inputs == Sizes(MaxHeight, MaxWidth) \cup BadRequests

\* the test of line 367 without its comparison of width and 2
rejectedNoWidthFloor(height, width, err) ==
  err \/ height < 2 \/ height > maxDimension \/ width > maxDimension

\* the test of line 367: the request is refused
rejected(height, width, err) ==
  err \/ height < 2 \/ width < 2 \/ height > maxDimension \/ width > maxDimension

noMaze == [start |-> position(0, 0), finish |-> position(0, 0),
           height |-> 0, width |-> 0, cells |-> <<>>]
noArgs == [height |-> 0, width |-> 0, solution |-> FALSE, label |-> FALSE,
           oppositeStart |-> FALSE, seed |-> 0, err |-> FALSE]
\* index.js before the first call of putMaze (lines 13-34): the canvas and
\* the fields of the last call (calls, ptr, size, label), the script's
\* lastHeight, lastWidth, lastPointer, lastSize, its view pixels, the data of
\* canvasImageData, and how often the canvas was resized
undefined == -1
noPixels == [ptr |-> undefined, size |-> 0]
noCanvas == [calls |-> 0, height |-> 0, width |-> 0, ptr |-> nilPtr, size |-> 0,
             label |-> <<>>,
             lastHeight |-> undefined, lastWidth |-> undefined,
             lastPointer |-> undefined, lastSize |-> undefined,
             pixels |-> noPixels,
             imageData |-> [base |-> "transparent", over |-> <<>>],
             resizes |-> 0]

\* the form before anything is typed into it
noDocument == [mazeHeight |-> <<>>, mazeWidth |-> <<>>, randomSeed |-> <<>>,
               showSolution |-> FALSE, labelMaze |-> FALSE, oppositeStart |-> FALSE]

\* The requests of the model for the sizes of inputs: both settings of the
\* solution and corner check boxes, and the given label settings and seeds.
Requests(inputs, labels, seeds) ==
  {[height |-> in[1], width |-> in[2], solution |-> solution, label |-> label,
    oppositeStart |-> oppositeStart, seed |-> sd, err |-> in[3]] :
     in \in inputs, solution \in BOOLEAN, oppositeStart \in BOOLEAN,
     label \in labels, sd \in seeds}

\* seeds typed into the form, and readings of time.Now().UnixNano() (line 373)
SeedInputs == {0, 255, -19}
Clock == {4096, 48879}

\* lines 372-374 with the replacement of a zero seed left out
seedUsedAsTyped(sd, now) == sd

\* lines 372-374: the seed the random source is created from
seedUsed(sd, now) == IF sd = 0 THEN now ELSE sd

\* a string is the sequence of its characters
digitChars == <<"0", "1", "2", "3", "4", "5", "6", "7", "8", "9",
                "a", "b", "c", "d", "e", "f">>

\* the digits of n >= 0 in the given base, most significant first
RECURSIVE Digits(_, _)
Digits(n, base) ==
  IF n < base THEN <<digitChars[n + 1]>>
  ELSE Append(Digits(n \div base, base), digitChars[(n % base) + 1])

\* the verbs %d and %x of fmt on an integer
FormatInt(n, base) == IF n < 0 THEN <<"-">> \o Digits(-n, base) ELSE Digits(n, base)

\* ----------------------------------------------------------- getArguments
DecimalDigits == {digitChars[i] : i \in 1 .. 10}

\* the number a sequence of decimal digits spells
RECURSIVE digitsValue(_)
digitsValue(digs) ==
  IF digs = <<>> THEN 0
  ELSE digitsValue(SubSeq(digs, 1, Len(digs) - 1)) * 10
         + (CHOOSE v \in 0 .. 9 : digitChars[v + 1] = digs[Len(digs)])

RECURSIVE stripZeros(_)
stripZeros(digs) ==
  IF Len(digs) > 1 /\ digs[1] = "0" THEN stripZeros(Tail(digs)) ELSE digs

\* u spells a smaller number than v (neither has leading zeros)
lessDigits(u, v) ==
  \/ Len(u) < Len(v)
  \/ /\ Len(u) = Len(v)
     /\ \E k \in 1 .. Len(u) :
          /\ SubSeq(u, 1, k - 1) = SubSeq(v, 1, k - 1)
          /\ digitsValue(<<u[k]>>) < digitsValue(<<v[k]>>)

\* 1 << (bitSize - 1) in decimal, for the two sizes getArguments asks for
cutoff(bitSize) ==
  IF bitSize = 16 THEN <<"3", "2", "7", "6", "8">>
  ELSE <<"9", "2", "2", "3", "3", "7", "2", "0", "3", "6",
         "8", "5", "4", "7", "7", "5", "8", "0", "8">>

\* the leading decimal digits of s
RECURSIVE leadingDigits(_)
leadingDigits(s) ==
  IF s # <<>> /\ s[1] \in DecimalDigits THEN <<s[1]>> \o leadingDigits(Tail(s)) ELSE <<>>

\* a ParseInt that returns, with its syntax error, the number the text starts with
strconvParseIntPrefix(s, bitSize) ==
  LET neg == s # <<>> /\ s[1] = "-"
      body == IF s # <<>> /\ s[1] \in {"+", "-"} THEN Tail(s) ELSE s
      digs == stripZeros(body)
  IN IF body = <<>> \/ \E i \in 1 .. Len(body) : body[i] \notin DecimalDigits
     THEN [value |-> digitsValue(leadingDigits(body)), err |-> "syntax"]
     ELSE IF ~neg /\ ~lessDigits(digs, cutoff(bitSize))
     THEN [value |-> digitsValue(cutoff(bitSize)) - 1, err |-> "range"]
     ELSE IF neg /\ lessDigits(cutoff(bitSize), digs)
     THEN [value |-> 0 - digitsValue(cutoff(bitSize)), err |-> "range"]
     ELSE [value |-> IF neg THEN 0 - digitsValue(digs) ELSE digitsValue(digs),
           err |-> "nil"]

\* strconv.ParseInt(s, 10, bitSize): 0 and a syntax error for a text that is
\* not an optional sign and decimal digits; the nearest number of bitSize bits
\* and a range error for a number that does not fit; else the number
strconvParseInt(s, bitSize) ==
  LET neg == s # <<>> /\ s[1] = "-"
      body == IF s # <<>> /\ s[1] \in {"+", "-"} THEN Tail(s) ELSE s
      digs == stripZeros(body)
  IN IF body = <<>> \/ \E i \in 1 .. Len(body) : body[i] \notin DecimalDigits
     THEN [value |-> 0, err |-> "syntax"]
     ELSE IF ~neg /\ ~lessDigits(digs, cutoff(bitSize))
     THEN [value |-> digitsValue(cutoff(bitSize)) - 1, err |-> "range"]
     ELSE IF neg /\ lessDigits(cutoff(bitSize), digs)
     THEN [value |-> 0 - digitsValue(cutoff(bitSize)), err |-> "range"]
     ELSE [value |-> IF neg THEN 0 - digitsValue(digs) ELSE digitsValue(digs),
           err |-> "nil"]

\* getArguments (lines 392-403): err is overwritten by every parse, so the
\* error returned is the one of the seed
getArguments(doc) ==
  [height |-> strconvParseInt(doc.mazeHeight, 16).value,
   width |-> strconvParseInt(doc.mazeWidth, 16).value,
   solution |-> doc.showSolution,
   label |-> doc.labelMaze,
   oppositeStart |-> doc.oppositeStart,
   seed |-> strconvParseInt(doc.randomSeed, 64).value,
   err |-> strconvParseInt(doc.randomSeed, 64).err # "nil"]

\* fmt.Sprintf("%dx%d %x", height, width, seed) (line 386)
Sprintf(height, width, sd) ==
  FormatInt(height, 10) \o <<"x">> \o FormatInt(width, 10) \o <<" ">> \o FormatInt(sd, 16)

Init ==
  /\ pc = "idle"
  /\ args = noArgs
  /\ m = noMaze
  /\ stack = <<>>
  /\ visited = {}
  /\ path = <<>>
  /\ seed = 0
  /\ frameBuffer = nilBuffer
  /\ nextPtr = 1
  /\ canvas = noCanvas
  /\ outcome = "none"
  /\ document = noDocument

\* generateCallback, lines 366-370: the arguments are read and refused.  The
\* check boxes are not used on this path.
Reject ==
  /\ pc = "idle"
  /\ \E in \in Inputs :
       /\ rejected(in[1], in[2], in[3])
       /\ args' = [height |-> in[1], width |-> in[2], solution |-> FALSE,
                   label |-> FALSE, oppositeStart |-> FALSE, seed |-> 0,
                   err |-> in[3]]
  /\ outcome' = "rejected"
  /\ UNCHANGED <<pc, m, stack, visited, path, seed, frameBuffer, nextPtr, canvas>>
  /\ UNCHANGED document

\* generateCallback, lines 366-376, and generate up to its loop (lines 207-208),
\* for a request drawn from requests
Accept(requests) ==
  /\ pc = "idle"
  /\ \E r \in requests, now \in Clock :
       /\ ~rejected(r.height, r.width, r.err)
       /\ args' = r
       /\ seed' = seedUsed(r.seed, now)
       /\ IF invalidNewMaze(r.height, r.width)
          THEN /\ pc' = invalidCall
               /\ UNCHANGED <<m, stack, visited>>
          ELSE /\ \E sx, fx \in 0 .. r.width - 1 :
                    m' = newMaze(r.height, r.width, sx, fx, r.oppositeStart)
               /\ stack' = generateInit(m').stack
               /\ visited' = generateInit(m').visited
               /\ pc' = "generate"
  /\ path' = <<>>
  /\ outcome' = "running"
  /\ UNCHANGED <<frameBuffer, nextPtr, canvas>>
  /\ UNCHANGED document

\* the first maze the process is asked for: putMaze has not been invoked yet
First ==
  /\ canvas = noCanvas
  /\ Accept(Requests(Inputs, {FALSE}, {255}))

\* one iteration of generate's loop (lines 209-227)
GenerateStep ==
  /\ pc = "generate"
  /\ loops(stack)
  /\ IF underflows(stack)
     THEN /\ pc' = stackUnderflow
          /\ UNCHANGED <<stack, visited, m>>
     ELSE /\ \E r \in {generateIteration(permutations[i], stack, visited, m) :
                         i \in 1 .. Len(permutations)} :
               /\ stack' = r.stack
               /\ visited' = r.visited
               /\ m' = [m EXCEPT !.cells = r.cells]
          /\ UNCHANGED pc
  /\ UNCHANGED <<args, path, seed, frameBuffer, nextPtr, canvas, outcome>>
  /\ UNCHANGED document

\* generate leaves its loop and returns (lines 229-231)
GenerateReturn ==
  /\ pc = "generate"
  /\ ~loops(stack)
  /\ m' = [m EXCEPT !.cells = openEnds(m)]
  /\ pc' = "draw"
  /\ UNCHANGED <<args, stack, visited, path, seed, frameBuffer, nextPtr, canvas, outcome>>
  /\ UNCHANGED document

\* lines 379-382 with the test of line 380 left out: the maze is always solved
DrawThenSolve ==
  /\ pc = "draw"
  /\ frameBuffer' = draw(frameBuffer, nextPtr, m)
  /\ nextPtr' = IF frameBuffer'.ptr = nextPtr THEN nextPtr + 1 ELSE nextPtr
  /\ pc' = "solve"
  /\ stack' = solveInit(m).stack
  /\ visited' = solveInit(m).visited
  /\ UNCHANGED <<args, m, path, seed, canvas, outcome>>
  /\ UNCHANGED document

\* m.draw() (line 379), then solve up to its loop when a solution is asked for
Draw ==
  /\ pc = "draw"
  /\ frameBuffer' = draw(frameBuffer, nextPtr, m)
  /\ nextPtr' = IF frameBuffer'.ptr = nextPtr THEN nextPtr + 1 ELSE nextPtr
  /\ IF args.solution
     THEN /\ pc' = "solve"
          /\ stack' = solveInit(m).stack
          /\ visited' = solveInit(m).visited
     ELSE /\ pc' = "export"
          /\ UNCHANGED <<stack, visited>>
  /\ UNCHANGED <<args, m, path, seed, canvas, outcome>>
  /\ UNCHANGED document

\* one iteration of solve's loop (lines 241-255), its return, or its panic
SolveStep ==
  /\ pc = "solve"
  /\ IF ~loops(stack)
     THEN /\ pc' = noSolution
          /\ UNCHANGED <<stack, visited, path>>
     ELSE IF m.finish \in visited
     THEN /\ path' = stack
          /\ pc' = "drawPath"
          /\ UNCHANGED <<stack, visited>>
     ELSE IF underflows(stack)
     THEN /\ pc' = stackUnderflow
          /\ UNCHANGED <<stack, visited, path>>
     ELSE LET pos == peek(stack)
              open == passable(pos, m, visited)
          IN /\ IF open # <<>>
                THEN LET np == translate(Head(open), pos, m).pos
                     IN /\ visited' = visited \cup {np}
                        /\ stack' = push(stack, np)
                ELSE /\ stack' = pop(stack)
                     /\ UNCHANGED visited
             /\ UNCHANGED <<pc, path>>
  /\ UNCHANGED <<args, m, seed, frameBuffer, nextPtr, canvas, outcome>>
  /\ UNCHANGED document

\* drawPath that also closes every wall of the cells the path runs through
DrawPathClosing ==
  /\ pc = "drawPath"
  /\ frameBuffer' = drawPath(frameBuffer, path)
  /\ m' = [m EXCEPT !.cells = [i \in 1 .. Len(m.cells) |->
                                 IF \E k \in 1 .. Len(path) : at(path[k], m) = i
                                 THEN closedCell ELSE m.cells[i]]]
  /\ pc' = "export"
  /\ UNCHANGED <<args, stack, visited, path, seed, nextPtr, canvas, outcome>>
  /\ UNCHANGED document

\* m.drawPath(img, path) (line 381)
DrawPath ==
  /\ pc = "drawPath"
  /\ frameBuffer' = drawPath(frameBuffer, path)
  /\ pc' = "export"
  /\ UNCHANGED <<args, m, stack, visited, path, seed, nextPtr, canvas, outcome>>
  /\ UNCHANGED document

\* len(frameBuffer.Pix): four bytes a pixel
lenPix(img) == 4 * img.bounds[1] * img.bounds[2]

\* the bytes a view of linear memory shows: those of the frame buffer if the
\* view is on it, nothing if its buffer is detached, and what other or freed
\* memory holds otherwise
viewed(view, detached, memory) ==
  IF detached THEN [base |-> "none", over |-> <<>>]
  ELSE IF view.ptr = memory.ptr /\ view.size = lenPix(memory)
  THEN [base |-> memory.base, over |-> memory.over]
  ELSE [base |-> "stale", over |-> <<>>]

\* a putMaze that keeps the view it made in its first call
putMazeKeepsView(cv, newMazeHeight, newMazeWidth, newPointer, newSize, label, grown, memory) ==
  LET resize == newMazeHeight # cv.lastHeight \/ newMazeWidth # cv.lastWidth
      rebuild == cv.pixels = noPixels
      view == IF rebuild THEN [ptr |-> newPointer, size |-> newSize] ELSE cv.pixels
      detached == ~rebuild /\ grown
      data == IF resize THEN [base |-> "transparent", over |-> <<>>] ELSE cv.imageData
  IN [calls |-> cv.calls + 1,
      height |-> IF resize THEN newMazeHeight ELSE cv.height,
      width |-> IF resize THEN newMazeWidth ELSE cv.width,
      ptr |-> newPointer, size |-> newSize, label |-> label,
      lastHeight |-> newMazeHeight, lastWidth |-> newMazeWidth,
      lastPointer |-> IF rebuild THEN newPointer ELSE cv.lastPointer,
      lastSize |-> IF rebuild THEN newSize ELSE cv.lastSize,
      pixels |-> view,
      imageData |-> IF detached THEN data ELSE viewed(view, FALSE, memory),
      resizes |-> IF resize THEN cv.resizes + 1 ELSE cv.resizes]

\* putMaze (index.js lines 69-109). canvasImageData exists from line 15 on,
\* so the canvas is resized when a dimension differs from the last one (84:
\* lastPointer = undefined then); the view is rebuilt when there is none, when
\* pointer or size differ, or when its buffer was detached because linear
\* memory has grown since (byteLength 0); data.set copies the viewed bytes,
\* none from a detached view.
putMaze(cv, newMazeHeight, newMazeWidth, newPointer, newSize, label, grown, memory) ==
  LET resize == newMazeHeight # cv.lastHeight \/ newMazeWidth # cv.lastWidth
      lastPointer == IF resize THEN undefined ELSE cv.lastPointer
      byteLength == IF grown THEN 0 ELSE cv.pixels.size
      rebuild == \/ cv.pixels = noPixels
                 \/ lastPointer # newPointer
                 \/ cv.lastSize # newSize
                 \/ byteLength = 0
      view == IF rebuild THEN [ptr |-> newPointer, size |-> newSize] ELSE cv.pixels
      detached == ~rebuild /\ grown
      data == IF resize THEN [base |-> "transparent", over |-> <<>>] ELSE cv.imageData
  IN [calls |-> cv.calls + 1,
      height |-> IF resize THEN newMazeHeight ELSE cv.height,
      width |-> IF resize THEN newMazeWidth ELSE cv.width,
      ptr |-> newPointer, size |-> newSize, label |-> label,
      lastHeight |-> newMazeHeight, lastWidth |-> newMazeWidth,
      lastPointer |-> IF rebuild THEN newPointer ELSE lastPointer,
      lastSize |-> IF rebuild THEN newSize ELSE cv.lastSize,
      pixels |-> view,
      imageData |-> IF detached THEN data ELSE viewed(view, FALSE, memory),
      resizes |-> IF resize THEN cv.resizes + 1 ELSE cv.resizes]

\* export (lines 414-423), with putMaze, and the return of generateCallback,
\* whose locals (the maze, the path) are gone with it; linear memory may have
\* grown since the previous call
Export ==
  /\ pc = "export"
  /\ \E grown \in BOOLEAN :
       canvas' = putMaze(canvas, frameBuffer.bounds[2], frameBuffer.bounds[1],
                         frameBuffer.ptr, lenPix(frameBuffer),
                         IF args.label THEN Sprintf(m.height, m.width, seed) ELSE <<>>,
                         grown, frameBuffer)
  /\ pc' = "idle"
  /\ outcome' = "exported"
  /\ m' = noMaze
  /\ stack' = <<>>
  /\ visited' = {}
  /\ path' = <<>>
  /\ seed' = 0
  /\ UNCHANGED <<args, frameBuffer, nextPtr>>
  /\ UNCHANGED document

Next ==
  \/ Reject
  \/ First
  \/ GenerateStep
  \/ GenerateReturn
  \/ Draw
  \/ SolveStep
  \/ DrawPath
  \/ Export

\* The process from its start: refused requests at any time, and the whole
\* handling of the first maze it is asked for.
Spec == Init /\ [][Next]_vars

\* ------------------------------------------------ several mazes in a row
\* The process asked for up to MaxMazes mazes, one after the other, each in
\* corner mode and of one of the sizes of SessionSizes, whose images differ in
\* height.
MaxMazes == 2
SessionSizes == {<<2, 2, FALSE>>, <<3, 2, FALSE>>}

Again ==
  /\ canvas.calls < MaxMazes
  /\ Accept({r \in Requests(SessionSizes, {FALSE}, {255}) : r.oppositeStart})

SessionNext ==
  \/ Again
  \/ GenerateStep
  \/ GenerateReturn
  \/ Draw
  \/ SolveStep
  \/ DrawPath
  \/ Export

SpecSession == Init /\ [][SessionNext]_vars

\* ------------------------------------------------------- seeds and labels
\* The first maze of the process, 2x2 and without its solution, for every seed
\* of SeedInputs and both settings of the label check box.
FirstLabelled ==
  /\ canvas = noCanvas
  /\ Accept({r \in Requests(Sizes(2, 2), BOOLEAN, SeedInputs) : ~r.solution})

LabelNext ==
  \/ FirstLabelled
  \/ GenerateStep
  \/ GenerateReturn
  \/ Draw
  \/ Export

SpecLabel == Init /\ [][LabelNext]_vars

\* ------------------------------------ the generators that cache the solution
\* direction.translate of lines 484-504: the neighbour of p, which may lie one
\* row below or one column right of the grid, or p itself at the north and
\* west edges, bottom row and right column
translateEdge(d, p, mz) ==
  CASE d = north /\ p.y > 0 -> position(p.x, p.y - 1)
    [] d = south /\ p.y < mz.height -> position(p.x, p.y + 1)
    [] d = west /\ p.x > 0 -> position(p.x - 1, p.y)
    [] d = east /\ p.x < mz.width -> position(p.x + 1, p.y)
    [] OTHER -> p

\* the displacements dx, dy of the generators of unnamed/part_001, part_002
dx == [d \in Directions |-> CASE d = east -> 1 [] d = west -> -1 [] OTHER -> 0]
dy == [d \in Directions |-> CASE d = north -> -1 [] d = south -> 1 [] OTHER -> 0]
displaced(d, p, mz) == position(p.x + dx[d], p.y + dy[d])

\* newMaze of these generators: the solution is nil
newMazeCached(height, width, sx, fx, oppositeStart) ==
  [start  |-> newMaze(height, width, sx, fx, oppositeStart).start,
   finish |-> newMaze(height, width, sx, fx, oppositeStart).finish,
   height |-> height,
   width  |-> width,
   cells  |-> [i \in 1 .. height * width |-> closedCell],
   solution |-> <<>>]

\* One iteration of generate's loop (lines 624-649; part_001 lines 131-155,
\* part_002 lines 161-184), neighbour[d] being the np the generator computes
\* for direction d from the top of the stack: the first direction of dirs
\* whose np is inside the grid and unvisited has the wall of p and then the
\* wall back of np opened, np marked and pushed, and
\* the stack copied to m.solution if np is the exit and no shorter solution
\* is cached; without such a direction the stack is popped.
generateCachedIteration(neighbour, dirs, stk, vis, mz) ==
  LET p == peek(stk)
      found == SelectSeq(dirs, LAMBDA d :
                 LET np == neighbour[d]
                 IN /\ np.x >= 0 /\ np.x < mz.width
                    /\ np.y >= 0 /\ np.y < mz.height
                    /\ np \notin vis)
  IN IF found # <<>>
     THEN LET dir == Head(found)
              np == neighbour[dir]
              c1 == [mz.cells EXCEPT ![at(p, mz)][dir] = TRUE]
              pushed == push(stk, np)
          IN [stack |-> pushed,
              visited |-> vis \cup {np},
              cells |-> [c1 EXCEPT ![at(np, mz)][opposite(dir)] = TRUE],
              solution |-> IF /\ np = mz.finish
                              /\ Len(mz.solution) = 0 \/ Len(pushed) < Len(mz.solution)
                           THEN pushed ELSE mz.solution]
     ELSE [stack |-> pop(stk), visited |-> vis, cells |-> mz.cells,
           solution |-> mz.solution]

\* generateCallback up to the loop of generate, for the first maze, in a
\* program built with one of these generators
FirstCached ==
  /\ pc = "idle"
  /\ canvas = noCanvas
  /\ \E r \in Requests(Inputs, {FALSE}, {255}), now \in Clock :
       /\ ~rejected(r.height, r.width, r.err)
       /\ args' = r
       /\ seed' = seedUsed(r.seed, now)
       /\ \E sx, fx \in 0 .. r.width - 1 :
            m' = newMazeCached(r.height, r.width, sx, fx, r.oppositeStart)
       /\ stack' = <<m'.start>>
       /\ visited' = {}
  /\ pc' \in {"generateCached", "generateCachedDxDy"}
  /\ path' = <<>>
  /\ outcome' = "running"
  /\ UNCHANGED <<frameBuffer, nextPtr, canvas, document>>

\* src/main.go lines 624-649
GenerateCachedStep ==
  /\ pc = "generateCached"
  /\ loops(stack)
  /\ \E r \in {generateCachedIteration([d \in Directions |-> translateEdge(d, peek(stack), m)],
                                         permutations[i], stack, visited, m) :
                 i \in 1 .. Len(permutations)} :
       /\ stack' = r.stack /\ visited' = r.visited
       /\ m' = [m EXCEPT !.cells = r.cells, !.solution = r.solution]
  /\ UNCHANGED <<pc, args, path, seed, document, frameBuffer, nextPtr, canvas, outcome>>

\* unnamed/part_001 lines 131-155, unnamed/part_002 lines 161-184
GenerateCachedDxDyStep ==
  /\ pc = "generateCachedDxDy"
  /\ loops(stack)
  /\ \E r \in {generateCachedIteration([d \in Directions |-> displaced(d, peek(stack), m)],
                                         permutations[i], stack, visited, m) :
                 i \in 1 .. Len(permutations)} :
       /\ stack' = r.stack /\ visited' = r.visited
       /\ m' = [m EXCEPT !.cells = r.cells, !.solution = r.solution]
  /\ UNCHANGED <<pc, args, path, seed, document, frameBuffer, nextPtr, canvas, outcome>>

\* the return of generate, its stack and visited marks gone
GenerateCachedReturn ==
  /\ pc \in {"generateCached", "generateCachedDxDy"}
  /\ ~loops(stack)
  /\ pc' = "generated"
  /\ visited' = {}
  /\ UNCHANGED <<args, m, stack, path, seed, document, frameBuffer, nextPtr, canvas, outcome>>

CachedNext ==
  \/ Reject
  \/ FirstCached
  \/ GenerateCachedStep
  \/ GenerateCachedDxDyStep
  \/ GenerateCachedReturn

SpecCached == Init /\ [][CachedNext]_vars

\* ------------------------------------------------------- the form's texts
\* The form as it is when the button is clicked: texts that are numbers in and
\* out of range, signed, padded, empty or not numbers at all, in the corner
\* mode and without solution or label.
SizeTexts ==
  {<<>>, <<"2">>, <<"+", "3">>, <<"0", "2">>, <<"1">>, <<"a">>, <<"2", "a">>, <<"-", "2">>,
   <<"2", "0", "1">>, <<"4", "0", "0", "0", "0">>, <<"-", "4", "0", "0", "0", "0">>}
SeedTexts == {<<>>, <<"0">>, <<"7">>, <<"-", "7">>, <<"7", "z">>}
Forms ==
  {[mazeHeight |-> h, mazeWidth |-> w, randomSeed |-> sd,
    showSolution |-> FALSE, labelMaze |-> FALSE, oppositeStart |-> TRUE] :
     h \in SizeTexts, w \in SizeTexts, sd \in SeedTexts}

InitForm ==
  /\ pc = "idle"
  /\ args = noArgs
  /\ m = noMaze
  /\ stack = <<>>
  /\ visited = {}
  /\ path = <<>>
  /\ seed = 0
  /\ document \in Forms
  /\ frameBuffer = nilBuffer
  /\ nextPtr = 1
  /\ canvas = noCanvas
  /\ outcome = "none"

\* generateCallback, lines 366-370, for the arguments read from the form
ClickRefused ==
  /\ pc = "idle"
  /\ rejected(getArguments(document).height, getArguments(document).width,
              getArguments(document).err)
  /\ args' = getArguments(document)
  /\ outcome' = "rejected"
  /\ UNCHANGED <<pc, m, stack, visited, path, seed, document, frameBuffer, nextPtr, canvas>>

\* generateCallback, lines 366-376, for the arguments read from the form, the
\* first time a maze is made
ClickAccepted ==
  /\ canvas = noCanvas
  /\ Accept({getArguments(document)})

FormNext ==
  \/ ClickRefused
  \/ ClickAccepted
  \/ GenerateStep
  \/ GenerateReturn
  \/ Draw
  \/ Export

SpecForm == InitForm /\ [][FormNext]_vars

\* ------------------------------------------------------------ wide mazes
\* The first maze of the process, two rows high and up to MaxWideWidth wide, in
\* corner mode and without its solution: widths below, at and above the width
\* minImageWidth stands for.
MaxWideWidth == 5

FirstWide ==
  /\ canvas = noCanvas
  /\ Accept({r \in Requests(Sizes(2, MaxWideWidth), {FALSE}, {255}) :
               r.oppositeStart /\ ~r.solution})

WideNext ==
  \/ FirstWide
  \/ GenerateStep
  \/ GenerateReturn
  \/ Draw
  \/ Export

SpecWide == Init /\ [][WideNext]_vars

\* ------------------------------------------------- newMaze called directly
\* The heights and widths newMaze is called with, from below 2 to above
\* maxDimension, and the values rng.Intn(n) is taken to return.
CallDimensions == {-1, 0, 1, 2, 3, maxDimension, maxDimension + 1}
Intn(n) == {0, n \div 2, n - 1} \cap (0 .. n - 1)

InitCall ==
  /\ pc = "call"
  /\ args \in {r \in Requests(CallDimensions \X CallDimensions \X {FALSE}, {FALSE}, {255}) :
                ~r.solution}
  /\ m = noMaze
  /\ stack = <<>>
  /\ visited = {}
  /\ path = <<>>
  /\ seed = 0
  /\ frameBuffer = nilBuffer
  /\ nextPtr = 1
  /\ canvas = noCanvas
  /\ outcome = "none"
  /\ document = noDocument

\* newMaze(height, width, rng, oppositeStart), lines 101-120
NewMazeCall ==
  /\ pc = "call"
  /\ IF invalidNewMaze(args.height, args.width)
     THEN /\ pc' = invalidCall
          /\ UNCHANGED m
     ELSE /\ \E sx, fx \in Intn(args.width) :
               m' = newMaze(args.height, args.width, sx, fx, args.oppositeStart)
          /\ pc' = "returned"
  /\ UNCHANGED <<args, stack, visited, path, seed, frameBuffer, nextPtr, canvas, outcome>>
  /\ UNCHANGED document

\* newMaze on its own, called once with any of the sizes of CallDimensions
SpecNewMaze == InitCall /\ [][NewMazeCall]_vars

\* ------------------------------------------------------ graph of the maze
AllCells(mz) == {position(x, y) : x \in 0 .. mz.width - 1, y \in 0 .. mz.height - 1}

\* the cells one step from p through a wall that is open on p's side
OpenNeighbours(mz, p) ==
  {translate(d, p, mz).pos :
     d \in {e \in Directions : ~translate(e, p, mz).err /\ mz.cells[at(p, mz)][e]}}

\* the pairs of adjacent cells whose shared wall is open
OpenPairs(mz) ==
  {{ab[1], ab[2]} : ab \in {cd \in AllCells(mz) \X AllCells(mz) :
                              cd[2] \in OpenNeighbours(mz, cd[1])}}

RECURSIVE ReachFrom(_, _)
ReachFrom(mz, S) ==
  LET N == S \cup UNION {OpenNeighbours(mz, p) : p \in S}
  IN IF N = S THEN S ELSE ReachFrom(mz, N)

\* the connected components of the open-wall graph
Components(mz) == {ReachFrom(mz, {p}) : p \in AllCells(mz)}

Acyclic(mz) ==
  Cardinality(OpenPairs(mz)) = Cardinality(AllCells(mz)) - Cardinality(Components(mz))

Range(s) == {s[i] : i \in 1 .. Len(s)}

\* the simple paths through open walls that extend prefix to target
RECURSIVE SimplePaths(_, _, _)
SimplePaths(mz, prefix, target) ==
  IF prefix[Len(prefix)] = target THEN {prefix}
  ELSE UNION {SimplePaths(mz, Append(prefix, q), target) :
                q \in OpenNeighbours(mz, prefix[Len(prefix)]) \ Range(prefix)}

\* the number of positions on a breadth-first shortest path from the cells of
\* frontier (found after n positions) to target; 0 when there is none
RECURSIVE BfsCount(_, _, _, _, _)
BfsCount(mz, frontier, seen, target, n) ==
  IF target \in frontier THEN n
  ELSE LET next == (UNION {OpenNeighbours(mz, p) : p \in frontier}) \ seen
       IN IF next = {} THEN 0
          ELSE BfsCount(mz, next, seen \cup next, target, n + 1)

ShortestCount(mz) == BfsCount(mz, {mz.start}, {mz.start}, mz.finish, 1)

\* generate has returned and its maze is still in use
AfterGenerate == pc \in {"draw", "solve", "drawPath", "export"}

\* solve has returned path
Solved == pc = "drawPath"

\* ----------------------------------------------------------------- claims

\* C1: when generate() has returned, the number of distinct carved wall-pairs
\* (pairs of adjacent cells whose shared wall is open) is height*width - 1.
C1_CarvedPairsCount ==
  AfterGenerate => Cardinality(OpenPairs(m)) = m.height * m.width - 1

\* C2: when generate() has returned, every cell of the grid is reachable from
\* the entrance by moving only through open walls between in-bounds cells.
C2_AllReachable ==
  AfterGenerate => ReachFrom(m, {m.start}) = AllCells(m)

C2_Witness ==
  /\ pc = "draw"
  /\ m.height * m.width = 6
  /\ ReachFrom(m, {m.start}) = AllCells(m)

\* C3: for every grid generate() produced, the graph of carved wall-pairs is
\* acyclic, and exactly one simple path through open walls joins the entrance
\* and the exit.
C3_AcyclicUniquePath ==
  AfterGenerate =>
    /\ Acyclic(m)
    /\ Cardinality(SimplePaths(m, <<m.start>>, m.finish)) = 1

\* C4: the sequence solve() returns starts at the entrance, ends at the exit,
\* moves by one unit step through a wall open in the direction of travel at
\* every step, and holds no position twice.
C4_SolvePath ==
  Solved =>
    /\ Len(path) >= 1
    /\ path[1] = m.start
    /\ path[Len(path)] = m.finish
    /\ \A i \in 1 .. Len(path) - 1 :
         /\ \E d \in Directions :
              /\ ~translate(d, path[i], m).err
              /\ translate(d, path[i], m).pos = path[i + 1]
              /\ m.cells[at(path[i], m)][d]
         /\ (path[i + 1].x - path[i].x) * (path[i + 1].x - path[i].x)
              + (path[i + 1].y - path[i].y) * (path[i + 1].y - path[i].y) = 1
    /\ \A i, j \in 1 .. Len(path) : path[i] = path[j] => i = j

C4_Witness ==
  /\ Solved
  /\ Len(path) >= 4
  /\ path[Len(path)] = m.finish

\* C5: the number of positions in the path solve() returns equals the number
\* of positions on a breadth-first shortest path from entrance to exit.
C5_SolveIsShortest ==
  Solved => Len(path) = ShortestCount(m)

\* C7: a request whose height or width lies outside [2, maxDimension] is
\* rejected: the handler returns at once, no maze is constructed, the frame
\* buffer (pointer, bounds, pixels) stays as it was and putMaze is not invoked.
OutOfRange(a) ==
  a.height < 2 \/ a.height > maxDimension \/ a.width < 2 \/ a.width > maxDimension

C7_RejectedTouchesNothing ==
  [][(pc = "idle" /\ OutOfRange(args')) =>
       /\ pc' = "idle"
       /\ outcome' = "rejected"
       /\ m' = noMaze
       /\ frameBuffer' = frameBuffer
       /\ nextPtr' = nextPtr
       /\ canvas' = canvas]_vars

C7_Witness ==
  /\ outcome = "rejected"
  /\ OutOfRange(args)
  /\ frameBuffer # nilBuffer
  /\ canvas.calls = 1

\* C8: for every grid newMaze built, the entrance is in row 0 and the exit in
\* row height-1, both with a column in [0, width); in opposite-corner mode they
\* are (0,0) and (width-1, height-1); so entrance and exit are distinct cells.
C8_Placement ==
  pc # "idle" =>
    /\ m.start.y = 0
    /\ m.finish.y = m.height - 1
    /\ m.start.x \in 0 .. m.width - 1
    /\ m.finish.x \in 0 .. m.width - 1
    /\ args.oppositeStart =>
         /\ m.start = position(0, 0)
         /\ m.finish = position(m.width - 1, m.height - 1)
    /\ m.start # m.finish

C8_Witness ==
  /\ pc = "generate"
  /\ args.oppositeStart
  /\ m.width = 3
  /\ m.finish = position(2, 1)

\* what is left for a loop of generate or solve to do: two for every cell not
\* yet visited (its push and its pop) and one for every stack entry (its pop)
Measure == 2 * (m.height * m.width - Cardinality(visited)) + Len(stack)

\* C9: generate() terminates for every valid size and every sequence of draws,
\* and when its stack has become empty every cell has been marked visited.
\* Termination: in generate a step is always possible, and every step either
\* returns or lowers Measure, a natural number.
C9_GenerateTerminates ==
  /\ [](pc = "generate" =>
          /\ Measure \in Nat
          /\ ENABLED <<GenerateStep \/ GenerateReturn>>_vars
          /\ empty(stack) => visited = AllCells(m))
  /\ [][pc = "generate" => (pc' = "draw" \/ Measure' < Measure)]_vars

C9_Witness ==
  /\ pc = "generate"
  /\ empty(stack)
  /\ visited = AllCells(m)
  /\ Cardinality(visited) = 6

\* C10: for every grid generate() produced, solve() terminates by returning a
\* path; the "maze has no solution" panic is never reached.  Termination: in
\* solve a step is always possible, and every step either returns the path or
\* lowers Measure, a natural number.
C10_SolveReturns ==
  /\ [](pc # noSolution)
  /\ [](pc = "solve" => Measure \in Nat /\ ENABLED <<SolveStep>>_vars)
  /\ [][pc = "solve" => ((Solved' /\ path' = stack) \/ Measure' < Measure)]_vars

C10_Witness ==
  /\ Solved
  /\ path # <<>>
  /\ Range(path) # visited

Abs(n) == IF n < 0 THEN -n ELSE n

Called == pc \in {"returned", invalidCall}

Drawn == pc \in {"solve", "drawPath", "export"}

\* C13: the buffer draw() leaves has pixel height height*12 + 2*40 and pixel
\* width max(width*12 + 2*40, 128): the widths 2 and 3 are floored to 128 and
\* the width 4 gives exactly 128.
C13_BufferSize ==
  Drawn =>
    /\ frameBuffer.bounds[2] = m.height * 12 + 2 * 40
    /\ frameBuffer.bounds[1] =
         (IF m.width * 12 + 2 * 40 > 128 THEN m.width * 12 + 2 * 40 ELSE 128)
    /\ m.width \in {2, 3} => (m.width * 12 + 2 * 40 < 128 /\ frameBuffer.bounds[1] = 128)
    /\ m.width = 4 => (m.width * 12 + 2 * 40 = 128 /\ frameBuffer.bounds[1] = 128)

C13_Witness ==
  /\ Drawn
  /\ m.width = 5
  /\ frameBuffer.bounds = <<140, 104>>

\* the colour of pixel px of img
ColourAt(img, px) == IF px \in DOMAIN img.over THEN img.over[px] ELSE img.base

\* a and b have the same bounds and the same colour at every pixel
SamePixels(a, b) ==
  /\ a.bounds = b.bounds
  /\ a.base = b.base
  /\ \A px \in DOMAIN a.over \cup DOMAIN b.over : ColourAt(a, px) = ColourAt(b, px)

\* draw() has just returned: nothing has been drawn over its image yet
JustDrawn == pc = "solve" \/ (pc = "export" /\ ~args.solution)

\* C14: the pixels draw() produces depend only on the grid: after any sequence
\* of earlier requests the frame buffer draw() leaves equals the one it draws
\* into a fresh buffer, and drawing the same grid again gives the same pixels.
C14_DrawDependsOnGridOnly ==
  /\ JustDrawn => SamePixels(frameBuffer, draw(nilBuffer, nextPtr, m))
  /\ Drawn => SamePixels(draw(frameBuffer, nextPtr, m), draw(nilBuffer, nextPtr, m))

C14_Witness ==
  /\ JustDrawn
  /\ canvas.calls = 1
  /\ frameBuffer.ptr = canvas.ptr
  /\ SamePixels(frameBuffer, draw(nilBuffer, nextPtr, m))

\* the bounds the image of mz has to have, <<width, height>> in pixels
RequiredBounds(mz) ==
  <<IF mz.width * 12 + 80 > 128 THEN mz.width * 12 + 80 ELSE 128, mz.height * 12 + 80>>

\* C15: draw() allocates a new frame buffer if and only if none exists or the
\* existing one's bounds differ from the bounds required; otherwise the same
\* buffer object is reused; after every draw() the frame buffer's bounds equal
\* the required bounds.
C15_AllocatesIffNeeded ==
  [][pc = "draw" =>
       /\ IF frameBuffer.ptr = nilPtr \/ frameBuffer.bounds # RequiredBounds(m)
          THEN /\ frameBuffer'.ptr = nextPtr
               /\ frameBuffer'.ptr # frameBuffer.ptr
               /\ nextPtr' = nextPtr + 1
          ELSE /\ frameBuffer'.ptr = frameBuffer.ptr
               /\ nextPtr' = nextPtr
       /\ frameBuffer'.bounds = RequiredBounds(m)]_vars

C15_Witness ==
  /\ Drawn
  /\ canvas.calls = 1
  /\ canvas.ptr = 1
  /\ frameBuffer.ptr = 2
  /\ frameBuffer.bounds # <<canvas.width, canvas.height>>

\* the walls that face the outside of the grid, as <<cell, direction>>
Outward(mz) ==
  {pd \in AllCells(mz) \X Directions :
     \/ pd[2] = north /\ pd[1].y = 0
     \/ pd[2] = south /\ pd[1].y = mz.height - 1
     \/ pd[2] = west /\ pd[1].x = 0
     \/ pd[2] = east /\ pd[1].x = mz.width - 1}

\* the two openings of the maze: above the entrance and below the exit
Gaps(mz) == {<<mz.start, north>>, <<mz.finish, south>>}

\* the pixels of the wall d of cell p from inset pixels after its first corner
\* to inset pixels before its last
WallPixels(p, d, inset) ==
  LET x0 == p.x * 12 + 40
      y0 == p.y * 12 + 40
      run(from) == (from + inset) .. (from + 12 - inset)
  IN CASE d = north -> {<<x, y0>> : x \in run(x0)}
       [] d = south -> {<<x, y0 + 12>> : x \in run(x0)}
       [] d = west -> {<<x0, y>> : y \in run(y0)}
       [] d = east -> {<<x0 + 12, y>> : y \in run(y0)}

\* C16: after generate() the only open walls facing the outside of the grid
\* are the entrance's north wall and the exit's south wall; draw() leaves those
\* two boundary segments undrawn (white between their corner pixels) and draws
\* every other outer boundary segment (black from corner to corner).
C16_OnlyTwoOpenings ==
  /\ AfterGenerate =>
       \A pd \in Outward(m) : m.cells[at(pd[1], m)][pd[2]] <=> pd \in Gaps(m)
  /\ Drawn =>
       \A pd \in Outward(m) :
         IF pd \in Gaps(m)
         THEN \A px \in WallPixels(pd[1], pd[2], 1) : ColourAt(frameBuffer, px) = "white"
         ELSE \A px \in WallPixels(pd[1], pd[2], 0) : ColourAt(frameBuffer, px) = "black"

C16_Witness ==
  /\ Drawn
  /\ m.width = 3
  /\ m.start = position(1, 0)
  /\ m.cells[at(m.start, m)][north]
  /\ ColourAt(frameBuffer, <<58, 40>>) = "white"
  /\ ColourAt(frameBuffer, <<46, 40>>) = "black"

\* some pixel of img has the colour of the solution path
HasRed(img) == \E px \in DOMAIN img.over : img.over[px] = "red"

\* C17: for every valid request generateCallback runs generate, then draw,
\* then, if and only if the solution is asked for, solve and drawPath, and
\* then export, exactly once; when the solution is not asked for the solver is
\* not run and the exported image has no path pixels.
C17_PipelineOrder ==
  /\ [][/\ (pc = "idle" /\ pc' # "idle") => pc' = "generate"
        /\ pc = "generate" => pc' \in {"generate", "draw"}
        /\ pc = "draw" => (pc' = IF args.solution THEN "solve" ELSE "export")
        /\ pc = "solve" => pc' \in {"solve", "drawPath"}
        /\ pc = "drawPath" => pc' = "export"
        /\ pc = "export" => (pc' = "idle" /\ canvas'.calls = canvas.calls + 1)
        /\ pc # "export" => canvas' = canvas
        /\ pc \notin {"draw", "drawPath"} => frameBuffer' = frameBuffer
        /\ pc # "solve" => path' \in {path, <<>>}]_vars
  /\ [](pc \in {"solve", "drawPath"} => args.solution)
  /\ [](pc = "export" =>
          /\ args.solution <=> path # <<>>
          /\ args.solution <=> HasRed(frameBuffer))

C17_Witness ==
  /\ outcome = "exported"
  /\ canvas.calls = 2
  /\ ~args.solution
  /\ ~HasRed(frameBuffer)
  /\ frameBuffer.ptr = 1

\* the number a character stands for as a digit
DigitValue(c) == CHOOSE v \in 0 .. 15 : digitChars[v + 1] = c

\* the number the characters of text spell in the given base, with its sign
RECURSIVE ParseDigits(_, _)
ParseDigits(text, base) ==
  IF text = <<>> THEN 0
  ELSE ParseDigits(SubSeq(text, 1, Len(text) - 1), base) * base
         + DigitValue(text[Len(text)])

ParseInt(text, base) ==
  IF text # <<>> /\ text[1] = "-" THEN 0 - ParseDigits(Tail(text), base)
  ELSE ParseDigits(text, base)

\* the seed a label shows: the hexadecimal number after its space
LabelSeed(text) ==
  LET sp == CHOOSE i \in 1 .. Len(text) : text[i] = " "
  IN ParseInt(SubSeq(text, sp + 1, Len(text)), 16)

\* C18: a non-zero seed is passed to the random source unchanged; a seed of 0
\* is replaced by a time-derived value before the maze is built; and the label
\* reports the seed that was actually used.
C18_SeedUsedAndReported ==
  /\ [](pc \in {"generate", "draw", "export"} =>
          /\ args.seed # 0 => seed = args.seed
          /\ args.seed = 0 => (seed \in Clock /\ seed # 0))
  /\ [][pc = "export" =>
          IF args.label THEN LabelSeed(canvas'.label) = seed
                        ELSE canvas'.label = <<>>]_vars

C18_Witness ==
  /\ outcome = "exported"
  /\ args.seed = 0
  /\ args.label
  /\ canvas.label = <<"2", "x", "2", " ", "b", "e", "e", "f">>

\* s holds no position twice
NoDuplicates(s) == \A i, j \in 1 .. Len(s) : s[i] = s[j] => i = j

\* C19: generation starts with the entrance both pushed and marked visited;
\* in no iteration is the entrance selected as the not-yet-visited neighbour,
\* so no cell is pushed a second time and the stack never contains the same
\* position twice.
C19_EntrancePushedOnce ==
  /\ [](pc = "generate" => NoDuplicates(stack))
  /\ [][(pc = "generate" /\ Len(stack') > Len(stack)) =>
          (peek(stack') # m.start /\ peek(stack') \notin visited)]_vars
  /\ [](pc = "generate" => m.start \in visited)

\* the position one unit step from p in direction d, in the grid or not
StepFrom(p, d) ==
  position(p.x + (IF d = east THEN 1 ELSE IF d = west THEN -1 ELSE 0),
           p.y + (IF d = south THEN 1 ELSE IF d = north THEN -1 ELSE 0))

\* r is what one iteration may leave of the stack stk, the visited set vis and
\* the cells of mz when dirs is the permutation drawn: with k the first place
\* of dirs whose direction leads to a cell of the grid not in vis, that wall
\* and the neighbour's wall back are open, the neighbour is marked and pushed,
\* and nothing else has changed; with no such place, the top of the stack is
\* gone and nothing else has changed.
CarveOrPop(dirs, stk, vis, mz, r) ==
  LET p == stk[Len(stk)]
      inGrid(q) == q.x >= 0 /\ q.x < mz.width /\ q.y >= 0 /\ q.y < mz.height
      leads == {k \in 1 .. Len(dirs) :
                  inGrid(StepFrom(p, dirs[k])) /\ StepFrom(p, dirs[k]) \notin vis}
  IN IF leads # {}
     THEN LET k == CHOOSE j \in leads : \A i \in leads : j <= i
              d == dirs[k]
              np == StepFrom(p, d)
              back == CHOOSE e \in Directions : StepFrom(np, e) = p
          IN /\ r.stack = Append(stk, np)
             /\ r.visited = vis \cup {np}
             /\ \A i \in 1 .. Len(mz.cells), e \in Directions :
                  r.cells[i][e] = IF (i = at(p, mz) /\ e = d) \/ (i = at(np, mz) /\ e = back)
                                  THEN TRUE ELSE mz.cells[i][e]
     ELSE /\ r.stack = SubSeq(stk, 1, Len(stk) - 1)
          /\ r.visited = vis
          /\ r.cells = mz.cells

\* C20: each iteration of generate's loop does exactly one of two things: if
\* some direction leads to an in-bounds unvisited neighbour, the first such
\* direction in the drawn permutation is carved, that neighbour is marked
\* visited and pushed, and no other cell's openings change; otherwise the
\* stack is popped and no openings or visited marks change.
C20_IterationIsCarveOrPop ==
  /\ [](pc = "generate" /\ ~empty(stack) =>
          \A i \in 1 .. Len(permutations) :
            CarveOrPop(permutations[i], stack, visited, m,
                       generateIteration(permutations[i], stack, visited, m)))
  /\ [][(pc = "generate" /\ pc' = "generate") =>
          \E i \in 1 .. Len(permutations) :
            CarveOrPop(permutations[i], stack, visited, m,
                       [stack |-> stack', visited |-> visited', cells |-> m'.cells])]_vars

C20_Witness ==
  /\ pc = "generate"
  /\ m.height * m.width = 6
  /\ Len(stack) = 3
  /\ Cardinality(visited) = 6
  /\ Cardinality(OpenPairs(m)) >= 5

\* generate is running, or has returned and its maze is still in use
DuringOrAfterGenerate == pc = "generate" \/ AfterGenerate

\* q is a position of the grid of mz
InGrid(q, mz) == q.x >= 0 /\ q.x < mz.width /\ q.y >= 0 /\ q.y < mz.height

\* the direction that leads back after a unit step in direction d
Back(d) == CHOOSE e \in Directions : StepFrom(StepFrom(position(0, 0), d), e) = position(0, 0)

\* C21: in every state reached during and after generate(), for every cell c
\* and direction d whose neighbour n is inside the grid, c's opening flag for d
\* equals n's opening flag for the opposite direction.
C21_OpeningSymmetry ==
  DuringOrAfterGenerate =>
    \A x \in 0 .. m.width - 1, y \in 0 .. m.height - 1, d \in Directions :
      LET c == position(x, y)
          n == StepFrom(c, d)
      IN InGrid(n, m) => (m.cells[at(c, m)][d] <=> m.cells[at(n, m)][Back(d)])

C21_Witness ==
  /\ pc = "generate"
  /\ m.height * m.width = 6
  /\ Cardinality(OpenPairs(m)) = 3
  /\ m.cells[at(position(1, 0), m)][east]
  /\ m.cells[at(position(2, 0), m)][west]

\* C22: after generate() has returned the grid is read-only: solve(), draw()
\* and drawPath() leave every cell's openings, the entrance, the exit and the
\* dimensions unchanged.
C22_GridReadOnly ==
  [][(pc \in {"draw", "solve", "drawPath"}) =>
       /\ m'.cells = m.cells
       /\ m'.start = m.start
       /\ m'.finish = m.finish
       /\ m'.height = m.height
       /\ m'.width = m.width]_vars

C22_Witness ==
  /\ pc = "export"
  /\ args.solution
  /\ Len(path) >= 3
  /\ HasRed(frameBuffer)
  /\ Len(m.cells) = 6
  /\ ReachFrom(m, {m.start}) = AllCells(m)

\* C23: the "stack underflow" panic is unreachable: in generate() and solve(),
\* for every valid grid and every sequence of draws, peek and pop are only
\* executed on a non-empty stack.
C23_NoStackUnderflow ==
  /\ [](pc # stackUnderflow)
  /\ [][(pc \in {"generate", "solve"} /\ stack' # stack) => ~empty(stack)]_vars
  /\ [][(pc \in {"generate", "solve"} /\ Len(stack') < Len(stack)) =>
          (stack # <<>> /\ stack' = SubSeq(stack, 1, Len(stack) - 1))]_vars

C23_Witness ==
  /\ pc = "solve"
  /\ Len(stack) >= 1
  /\ Len(stack) + 2 <= Cardinality(visited)
  /\ m.finish \notin visited

\* C24: during generate() the visited set only grows and never holds more than
\* height*width positions, and every loop iteration either adds exactly one
\* position to the visited set, together with one push, or removes exactly one
\* stack entry.
C24_VisitedGrowsBounded ==
  /\ [](pc = "generate" =>
          /\ Cardinality(visited) <= m.height * m.width
          /\ \A q \in visited : InGrid(q, m))
  /\ [][(pc = "generate" /\ pc' = "generate") =>
          /\ visited \subseteq visited'
          /\ \/ /\ Cardinality(visited') = Cardinality(visited) + 1
                /\ Len(stack') = Len(stack) + 1
                /\ visited' = visited \cup {stack'[Len(stack')]}
                /\ SubSeq(stack', 1, Len(stack)) = stack
             \/ /\ visited' = visited
                /\ Len(stack') = Len(stack) - 1
                /\ stack' = SubSeq(stack, 1, Len(stack) - 1)]_vars

C24_Witness ==
  /\ pc = "generate"
  /\ m.height * m.width = 6
  /\ Cardinality(visited) = 6
  /\ Len(stack) = 2

\* the pixels of img that have the colour of the solution path
RedPixels(img) == {px \in DOMAIN img.over : img.over[px] = "red"}

\* the pixels of the straight line from the centre of cell a to the centre of
\* cell b, both centres included
CentreLine(a, b) ==
  LET lo(u, v) == (IF u < v THEN u ELSE v) * 12 + 46
      hi(u, v) == (IF u < v THEN v ELSE u) * 12 + 46
  IN (lo(a.x, b.x) .. hi(a.x, b.x)) \X (lo(a.y, b.y) .. hi(a.y, b.y))

\* drawPath() has returned and its image has not been exported yet
PathDrawn == pc = "export" /\ args.solution

\* C25: drawPath() draws, for every consecutive pair of path positions, one
\* axis-aligned segment between the two cell centres, and the pixels drawn for
\* a pair (a, b) are those drawn for the pair (b, a).
C25_SegmentsSymmetric ==
  PathDrawn =>
    /\ RedPixels(frameBuffer) =
         UNION {CentreLine(path[i], path[i + 1]) : i \in 1 .. Len(path) - 1}
    /\ \A i \in 1 .. Len(path) - 1 :
         LET a == path[i]
             b == path[i + 1]
             blank == NewRGBA(frameBuffer.ptr, frameBuffer.bounds)
         IN /\ a.x = b.x \/ a.y = b.y
            /\ RedPixels(drawSegment(blank, a, b)) = CentreLine(a, b)
            /\ RedPixels(drawSegment(blank, b, a)) = RedPixels(drawSegment(blank, a, b))

C25_Witness ==
  /\ PathDrawn
  /\ \E i \in 1 .. Len(path) - 1 : path[i + 1].y < path[i].y
  /\ \E i \in 1 .. Len(path) - 1 : path[i + 1].x < path[i].x
  /\ HasRed(frameBuffer)

\* text is an optional sign followed by one or more decimal digits
Numeral(text) ==
  LET body == IF text # <<>> /\ text[1] \in {"+", "-"} THEN Tail(text) ELSE text
  IN /\ body # <<>>
     /\ \A i \in 1 .. Len(body) :
          body[i] \in {"0", "1", "2", "3", "4", "5", "6", "7", "8", "9"}

\* text is the decimal writing of an integer of -limit .. limit - 1
ParsesWithin(text, limit) ==
  /\ Numeral(text)
  /\ Len(text) <= 9
  /\ LET n == ParseInt(IF text[1] = "+" THEN Tail(text) ELSE text, 10)
     IN 0 - limit <= n /\ n < limit

\* one of the three texts of the form is not an integer of its field's size
\* (the seed texts considered are short, so a numeral among them fits 64 bits)
FieldFails ==
  \/ ~ParsesWithin(document.mazeHeight, 32768)
  \/ ~ParsesWithin(document.mazeWidth, 32768)
  \/ ~(Numeral(document.randomSeed) /\ Len(document.randomSeed) <= 18)

\* C26: a click on a form whose height, width or seed text does not parse as
\* an integer is refused, nothing being generated, drawn or exported, although
\* getArguments returns the error of the seed only: a height or width that
\* does not parse is left at a value outside 2 .. maxDimension.
C26_ParseFailureRejected ==
  [][(pc = "idle" /\ document # noDocument /\ FieldFails) =>
       /\ pc' = "idle"
       /\ outcome' \in {outcome, "rejected"}
       /\ ~ENABLED <<ClickAccepted>>_vars
       /\ UNCHANGED <<m, stack, visited, path, frameBuffer, nextPtr, canvas>>
       /\ ~ParsesWithin(document.mazeHeight, 32768) =>
            getArguments(document).height \notin 2 .. maxDimension
       /\ ~ParsesWithin(document.mazeWidth, 32768) =>
            getArguments(document).width \notin 2 .. maxDimension]_vars

C26_Witness ==
  /\ outcome = "rejected"
  /\ pc = "idle"
  /\ canvas = noCanvas
  /\ document.mazeHeight = <<"2", "a">>
  /\ document.mazeWidth = <<"2">>
  /\ document.randomSeed = <<"7">>
  /\ args.height = 0 /\ args.width = 2 /\ ~args.err

Caching == pc \in {"generateCached", "generateCachedDxDy"}

\* a and b are neighbours in the grid of mz with the wall between them open
\* on both sides
Joined(a, b, mz) ==
  \E d \in Directions :
    /\ StepFrom(a, d) = b
    /\ InGrid(a, mz) /\ InGrid(b, mz)
    /\ mz.cells[at(a, mz)][d]
    /\ mz.cells[at(b, mz)][Back(d)]

\* C28: in the generators that cache the solution, m.solution is assigned
\* exactly once in a generation, and what is cached starts at the entrance,
\* ends at the exit, moves only between adjacent cells joined by an open wall
\* and holds no position twice.
C28_CachedSolutionIsSimplePath ==
  /\ [][(Caching /\ m.solution # <<>>) => m'.solution = m.solution]_vars
  /\ [](pc = "generated" => m.solution # <<>>)
  /\ []((Caching \/ pc = "generated") /\ m.solution # <<>> =>
         /\ m.solution[1] = m.start
         /\ m.solution[Len(m.solution)] = m.finish
         /\ \A i \in 1 .. Len(m.solution) - 1 :
              Joined(m.solution[i], m.solution[i + 1], m)
         /\ NoDuplicates(m.solution))

\* C29: in the generator whose translate returns the position itself at an
\* edge of the grid, every carve step joins the cell on top of the stack to
\* another cell of the grid, one unit step away: no cell is carved to itself,
\* and a wall between two neighbouring cells is open on both sides or on
\* neither.
C29_NeverCarvedToItself ==
  /\ [][(pc = "generateCached" /\ Len(stack') > Len(stack)) =>
          /\ peek(stack') # peek(stack)
          /\ InGrid(peek(stack'), m)
          /\ \E d \in Directions : StepFrom(peek(stack), d) = peek(stack')]_vars
  /\ [](pc = "generateCached" =>
         \A x \in 0 .. m.width - 1, y \in 0 .. m.height - 1, d \in Directions :
           LET c == position(x, y)
               n == StepFrom(c, d)
           IN InGrid(n, m) => (m.cells[at(c, m)][d] <=> m.cells[at(n, m)][Back(d)]))

\* C30: for every position p of the grid and every direction d, translate
\* reports out of bounds exactly when the unit move from p in direction d
\* leaves the grid; otherwise it returns the neighbour np, and translate of np
\* in the opposite direction succeeds and returns p; the opposite of the
\* opposite of a direction is the direction.
C30_TranslateRoundTrip ==
  m # noMaze =>
    /\ \A x \in 0 .. m.width - 1, y \in 0 .. m.height - 1, d \in Directions :
         LET p == position(x, y)
             t == translate(d, p, m)
         IN /\ t.err <=> ~InGrid(StepFrom(p, d), m)
            /\ ~t.err =>
                 /\ t.pos = StepFrom(p, d)
                 /\ translate(opposite(d), t.pos, m) = [pos |-> p, err |-> FALSE]
    /\ \A d \in Directions : opposite(opposite(d)) = d

C30_Witness ==
  /\ pc = "generate"
  /\ m.height = 2 /\ m.width = 3
  /\ Len(stack) = 3
  /\ peek(stack) = position(2, 1)
  /\ translate(east, peek(stack), m).err
  /\ translate(south, peek(stack), m).err
  /\ ~translate(north, peek(stack), m).err
  /\ m.cells[at(peek(stack), m)][west]

====
